---- MODULE Spec2Model ----
\* A model of hash_table.h: an open-addressing, linear-probing hash table
\* from C strings to opaque pointers, with grow-by-doubling and a forward
\* iterator.
EXTENDS Integers, Sequences, FiniteSets, TLC

\* ---------------------------------------------------------------------------
\* Program constants and the bounded inputs
\* ---------------------------------------------------------------------------

\* #define INITIAL_CAPACITY 16
INITIAL_CAPACITY == 16

\* The null pointer of type void * (a value).
NULL == 0

\* The null pointer of type const char * (a key).  A C string never has the
\* byte 0 as content, so this is distinct from every key string.
NULL_KEY == <<0>>

\* The null address of a key copy.  The address of a copy made by strdup is
\* written <<string, k>> for the k-th copy made of that string: the code
\* never compares or computes with addresses, so any naming that gives
\* every copy its own address will do.
NULL_ADDR == <<>>

\* Keys are C strings, written as the sequence of their bytes: "a" and "q".
\* They share the candidate index 6 at capacity 16 and part at capacity 32
\* (6 and 22).
Keys == {<<97>>, <<113>>}

\* Nine pairwise distinct keys for the scenario of nine sets: "a" .. "h",
\* with the candidate indices 6 .. 13 at capacity 16, and "q", which shares
\* the candidate index 6 with "a".
ScenarioKeys == {<<97>>, <<98>>, <<99>>, <<100>>, <<101>>, <<102>>, <<103>>,
                 <<104>>, <<113>>}

\* Every key of the model.
AllKeys == Keys \cup ScenarioKeys

\* Non-null values handed to hashtable_set.
Values == {1, 2}

\* The table is not grown beyond this many stored entries.
MaxLength == 9

\* At most this many hashtable_set calls are made while an iterator is
\* outstanding; a new iterator starts the count again.
MaxStaleSets == 1

\* ---------------------------------------------------------------------------
\* 64-bit unsigned arithmetic, as four 16-bit limbs (least significant first)
\* ---------------------------------------------------------------------------

Limb == 65536

RECURSIVE BitAnd(_, _)
\* x & y for naturals below 2^16
BitAnd(x, y) ==
    IF x = 0 \/ y = 0 THEN 0
    ELSE (x % 2) * (y % 2) + 2 * BitAnd(x \div 2, y \div 2)

\* hash = ((hash << 5) + hash) + c, on u_int64_t
hash_step(hash, c) ==
    LET t0 == hash[1] * 32 + hash[1] + c
        t1 == hash[2] * 32 + hash[2] + (t0 \div Limb)
        t2 == hash[3] * 32 + hash[3] + (t1 \div Limb)
        t3 == hash[4] * 32 + hash[4] + (t2 \div Limb)
    IN  <<t0 % Limb, t1 % Limb, t2 % Limb, t3 % Limb>>

RECURSIVE djb2_loop(_, _)
djb2_loop(hash, key) ==
    IF key = <<>> THEN hash
    ELSE djb2_loop(hash_step(hash, Head(key)), Tail(key))

\* The digest of every key of the model, computed once.
djb2_table == [key \in AllKeys |-> djb2_loop(<<5381, 0, 0, 0>>, key)]

\* static u_int64_t djb2_hash(const char *key)
djb2_hash(key) == djb2_table[key]

\* (size_t)(hash & (u_int64_t)(capacity - 1)); capacity stays below 2^31 here
slot_index(hash, capacity) ==
    LET mask == capacity - 1
    IN  BitAnd(hash[1], mask % Limb)
        + Limb * BitAnd(hash[2], (mask \div Limb) % Limb)

RECURSIVE strcmp(_, _)
\* strcmp: 0 when the strings are equal, else the sign of the first
\* differing byte (the end of a string reads as the byte 0)
strcmp(s, t) ==
    LET a == IF s = <<>> THEN 0 ELSE Head(s)
        b == IF t = <<>> THEN 0 ELSE Head(t)
    IN  IF a # b THEN (IF a < b THEN -1 ELSE 1)
        ELSE IF a = 0 THEN 0
        ELSE strcmp(Tail(s), Tail(t))

\* ---------------------------------------------------------------------------
\* The table
\* ---------------------------------------------------------------------------

\* The one element of a singleton set.  { F(x) : x \in {e} } computes e once
\* and hands its value to F, where a LET would compute e at every use.
Only(S) == CHOOSE x \in S : TRUE

\* HashTableEntry, and the zeroed entry calloc yields.  The pointer in the
\* field key is written as two fields: addr is the address it holds (0 for
\* NULL_ADDR) and key is the string at that address.
EmptyEntry == [key |-> NULL_KEY, addr |-> NULL_ADDR, value |-> NULL]

\* calloc(capacity, sizeof(HashTableEntry))
calloc(capacity) == [i \in 0 .. capacity - 1 |-> EmptyEntry]

VARIABLES
    capacity,   \* table->capacity
    length,     \* table->length
    entries,    \* table->_entries, a function on 0 .. capacity-1
    aborted,    \* the process was ended by a failed assert
    hung,       \* the process is in a probe loop that never ends
    allocs,     \* the addresses of the key copies strdup has made
    destroyed,  \* hashtable_destroy has run
    freed,      \* the addresses passed to free by hashtable_destroy, in order
    it,         \* the hashtable_iterator of the caller, or no iterator
    last,       \* the last call made and what it returned
    model,      \* for each key, the value of its last successful set
    yielded,    \* the pairs the iterator has produced so far
    it_sets,    \* the hashtable_set calls made since the iterator was created
    released    \* the array hashtable_expand last freed under the iterator

table == <<capacity, length, entries>>
vars == <<capacity, length, entries, aborted, hung, allocs, destroyed,
          freed, it, last, model, yielded, it_sets, released>>

\* The probe step without its index++.
next_index_no_advance(index, cap) == IF index >= cap THEN 0 ELSE index

\* The next index of a linear probe, wrapping at the end of the array.
next_index(index, cap) == IF index + 1 >= cap THEN 0 ELSE index + 1

RECURSIVE set_entry_probe(_, _, _, _, _)
\* The while loop of hashtable_set_entry.  It stops at an empty slot
\* ("empty"), or at an occupied slot for which the strcmp test of the loop
\* body is true ("update").  A probe that has seen every slot without
\* stopping is back where it began and never ends ("loop").
set_entry_probe(ents, cap, key, index, seen) ==
    IF ents[index].key = NULL_KEY THEN [kind |-> "empty", index |-> index]
    ELSE IF strcmp(key, ents[index].key) # 0
         THEN [kind |-> "update", index |-> index]
    ELSE IF seen + 1 >= cap THEN [kind |-> "loop", index |-> index]
    ELSE set_entry_probe(ents, cap, key, next_index(index, cap), seen + 1)

\* hashtable_set_entry incrementing *p_length also when it updates a slot.
hashtable_set_entry_count_update(ents, cap, key, value, count, addr) ==
    Only({ CASE p.kind = "loop" ->
               [entries |-> ents, inc |-> 0, ret |-> NULL_KEY,
                ret_addr |-> NULL_ADDR, hung |-> TRUE]
          [] p.kind = "update" ->
               [entries |-> [ents EXCEPT ![p.index].value = value],
                inc |-> IF count THEN 1 ELSE 0, ret |-> ents[p.index].key,
                ret_addr |-> ents[p.index].addr, hung |-> FALSE]
          [] OTHER ->
               IF count /\ addr = NULL_ADDR
               THEN [entries |-> ents, inc |-> 0, ret |-> NULL_KEY,
                     ret_addr |-> NULL_ADDR, hung |-> FALSE]
               ELSE [entries |-> [ents EXCEPT ![p.index] =
                                     [key |-> key, addr |-> addr,
                                      value |-> value]],
                     inc |-> IF count THEN 1 ELSE 0, ret |-> key,
                     ret_addr |-> addr, hung |-> FALSE]
         : p \in {set_entry_probe(ents, cap, key,
                                  slot_index(djb2_hash(key), cap), 0)} })

\* static const char *hashtable_set_entry(entries, capacity, key, value,
\*                                        p_length)
\* count says whether p_length is non-NULL.  addr is the address the
\* variable key holds when the entry is written: what strdup returns
\* (NULL_ADDR when it fails) if p_length is non-NULL, else the address
\* passed in.  The result holds the array, the increment of *p_length and
\* the returned key (its string and its address).
hashtable_set_entry(ents, cap, key, value, count, addr) ==
    Only({ CASE p.kind = "loop" ->
               [entries |-> ents, inc |-> 0, ret |-> NULL_KEY,
                ret_addr |-> NULL_ADDR, hung |-> TRUE]
          [] p.kind = "update" ->
               [entries |-> [ents EXCEPT ![p.index].value = value],
                inc |-> 0, ret |-> ents[p.index].key,
                ret_addr |-> ents[p.index].addr, hung |-> FALSE]
          [] OTHER ->
               IF count /\ addr = NULL_ADDR
               THEN [entries |-> ents, inc |-> 0, ret |-> NULL_KEY,
                     ret_addr |-> NULL_ADDR, hung |-> FALSE]
               ELSE [entries |-> [ents EXCEPT ![p.index] =
                                     [key |-> key, addr |-> addr,
                                      value |-> value]],
                     inc |-> IF count THEN 1 ELSE 0, ret |-> key,
                     ret_addr |-> addr, hung |-> FALSE]
         : p \in {set_entry_probe(ents, cap, key,
                                  slot_index(djb2_hash(key), cap), 0)} })

RECURSIVE expand_loop_half(_, _, _, _, _)
\* The loop of hashtable_expand stopping half way through the old array.
expand_loop_half(old, old_capacity, new, new_capacity, i) ==
    IF i >= old_capacity \div 2 THEN [entries |-> new, hung |-> FALSE]
    ELSE IF old[i].key = NULL_KEY
         THEN expand_loop_half(old, old_capacity, new, new_capacity, i + 1)
    ELSE Only({ IF r.hung THEN [entries |-> new, hung |-> TRUE]
                ELSE expand_loop_half(old, old_capacity, r.entries,
                                      new_capacity, i + 1)
              : r \in {hashtable_set_entry(new, new_capacity, old[i].key,
                                           old[i].value, FALSE,
                                           old[i].addr)} })

RECURSIVE expand_loop_verbatim(_, _, _, _, _)
\* The loop of hashtable_expand copying every entry to the slot of the same
\* index instead of setting it into the new array.
expand_loop_verbatim(old, old_capacity, new, new_capacity, i) ==
    IF i >= old_capacity THEN [entries |-> new, hung |-> FALSE]
    ELSE expand_loop_verbatim(old, old_capacity,
                              [new EXCEPT ![i] = old[i]], new_capacity,
                              i + 1)

RECURSIVE expand_loop(_, _, _, _, _)
\* The for loop of hashtable_expand from index i on: every non-empty entry
\* of the old array is set into the new one with p_length NULL.
expand_loop(old, old_capacity, new, new_capacity, i) ==
    IF i >= old_capacity THEN [entries |-> new, hung |-> FALSE]
    ELSE IF old[i].key = NULL_KEY
         THEN expand_loop(old, old_capacity, new, new_capacity, i + 1)
    ELSE Only({ IF r.hung THEN [entries |-> new, hung |-> TRUE]
                ELSE expand_loop(old, old_capacity, r.entries,
                                 new_capacity, i + 1)
              : r \in {hashtable_set_entry(new, new_capacity, old[i].key,
                                           old[i].value, FALSE,
                                           old[i].addr)} })

\* The new capacity as three times the old one.
size_mul3(n) == n * 3

\* The largest size_t is not reached by the capacities explored here, so
\* capacity * 2 is computed without wrap and the overflow test is false.
size_mul2(n) == n * 2

\* hashtable_expand storing the new capacity before calloc has answered.
hashtable_expand_early_commit(t, calloc_ok) ==
    LET new_capacity == size_mul2(t.capacity)
    IN  IF new_capacity < t.capacity
        THEN [ok |-> FALSE, hung |-> FALSE, capacity |-> t.capacity,
              entries |-> t.entries]
        ELSE IF ~calloc_ok
        THEN [ok |-> FALSE, hung |-> FALSE, capacity |-> new_capacity,
              entries |-> t.entries]
        ELSE Only({ IF m.hung
                    THEN [ok |-> FALSE, hung |-> TRUE,
                          capacity |-> t.capacity, entries |-> t.entries]
                    ELSE [ok |-> TRUE, hung |-> FALSE,
                          capacity |-> new_capacity, entries |-> m.entries]
                  : m \in {expand_loop(t.entries, t.capacity,
                                       calloc(new_capacity), new_capacity,
                                       0)} })

\* static bool hashtable_expand(HashTable *table)
\* t is the table before the call; calloc_ok is whether calloc returns
\* memory.  The result is the table after the call and the returned bool.
hashtable_expand(t, calloc_ok) ==
    LET new_capacity == size_mul2(t.capacity)
    IN  IF new_capacity < t.capacity
        THEN [ok |-> FALSE, hung |-> FALSE, capacity |-> t.capacity,
              entries |-> t.entries]
        ELSE IF ~calloc_ok
        THEN [ok |-> FALSE, hung |-> FALSE, capacity |-> t.capacity,
              entries |-> t.entries]
        ELSE Only({ IF m.hung
                    THEN [ok |-> FALSE, hung |-> TRUE,
                          capacity |-> t.capacity, entries |-> t.entries]
                    ELSE [ok |-> TRUE, hung |-> FALSE,
                          capacity |-> new_capacity, entries |-> m.entries]
                  : m \in {expand_loop(t.entries, t.capacity,
                                       calloc(new_capacity), new_capacity,
                                       0)} })

RECURSIVE get_probe_inverted(_, _, _, _, _)
\* The loop of hashtable_get with the strcmp test of hashtable_set_entry.
get_probe_inverted(ents, cap, key, index, seen) ==
    IF ents[index].key = NULL_KEY THEN [ret |-> NULL, hung |-> FALSE]
    ELSE IF strcmp(key, ents[index].key) # 0
         THEN [ret |-> ents[index].value, hung |-> FALSE]
    ELSE IF seen + 1 >= cap THEN [ret |-> NULL, hung |-> TRUE]
    ELSE get_probe_inverted(ents, cap, key, next_index(index, cap),
                            seen + 1)

RECURSIVE get_probe(_, _, _, _, _)
\* The while loop of hashtable_get: the value of the first occupied slot
\* whose key is equal, NULL at an empty slot, "loop" when the probe has seen
\* every slot and so never ends.
get_probe(ents, cap, key, index, seen) ==
    IF ents[index].key = NULL_KEY THEN [ret |-> NULL, hung |-> FALSE]
    ELSE IF strcmp(key, ents[index].key) = 0
         THEN [ret |-> ents[index].value, hung |-> FALSE]
    ELSE IF seen + 1 >= cap THEN [ret |-> NULL, hung |-> TRUE]
    ELSE get_probe(ents, cap, key, next_index(index, cap), seen + 1)

\* void *hashtable_get(HashTable *table, const char *key)
hashtable_get(ents, cap, key) ==
    get_probe(ents, cap, key, slot_index(djb2_hash(key), cap), 0)

\* The growth test of hashtable_set with > for >=.
needs_expand_late(t) == t.length > t.capacity \div 2

\* The growth test of hashtable_set without its / 2.
needs_expand_full(t) == t.length >= t.capacity

\* if (table->length >= table->capacity / 2)
needs_expand(t) == t.length >= t.capacity \div 2

\* hashtable_set after its value check: the growth, then the insertion with
\* the live length counter.  strdup_ret is what strdup returns if it is
\* called: the address of the copy, or NULL_ADDR.  The result is the table after
\* the call, the returned key, the number of copies strdup made and the step
\* that failed ("expand", "strdup") or "ok".
set_after_check(t, key, value, calloc_ok, strdup_ret) ==
    Only({ IF e.hung \/ ~e.ok
           THEN [capacity |-> e.capacity, length |-> t.length,
                 entries |-> e.entries, ret |-> NULL_KEY,
                 ret_addr |-> NULL_ADDR, dups |-> 0, why |-> "expand",
                 hung |-> e.hung]
           ELSE Only({ [capacity |-> e.capacity,
                        length |-> t.length + r.inc,
                        entries |-> r.entries, ret |-> r.ret,
                        ret_addr |-> r.ret_addr, dups |-> r.inc,
                        why |-> IF r.ret = NULL_KEY THEN "strdup" ELSE "ok",
                        hung |-> r.hung]
                     : r \in {hashtable_set_entry(e.entries, e.capacity,
                                                  key, value, TRUE,
                                                  strdup_ret)} })
         : e \in {IF needs_expand(t)
                  THEN hashtable_expand(t, calloc_ok)
                  ELSE [ok |-> TRUE, hung |-> FALSE,
                        capacity |-> t.capacity, entries |-> t.entries]} })

\* hashtable_set with the value check left out.
hashtable_set_no_check(t, key, value, calloc_ok, strdup_ret) ==
    set_after_check(t, key, value, calloc_ok, strdup_ret)

\* const char *hashtable_set(HashTable *table, const char *key, void *value)
\* without its assert: a NULL value is turned down ("null_value").
hashtable_set(t, key, value, calloc_ok, strdup_ret) ==
    IF value = NULL
    THEN [capacity |-> t.capacity, length |-> t.length,
          entries |-> t.entries, ret |-> NULL_KEY, ret_addr |-> NULL_ADDR,
          dups |-> 0, why |-> "null_value", hung |-> FALSE]
    ELSE set_after_check(t, key, value, calloc_ok, strdup_ret)

\* hashtable_iterator hashtable_create_iterator(HashTable *table)
\* key and value are not set by the code and not read before hashtable_next
\* stores them; _table is the one table of the model.
hashtable_create_iterator ==
    [active |-> TRUE, index |-> 0, key |-> NULL_KEY, value |-> NULL]

RECURSIVE next_scan(_, _, _, _)
\* The while loop of hashtable_next over the table's current array.
next_scan(iter, ents, cap, index) ==
    IF index < cap
    THEN IF ents[index].key # NULL_KEY
         THEN [ret |-> TRUE,
               it |-> [active |-> TRUE, index |-> index + 1,
                       key |-> ents[index].key,
                       value |-> ents[index].value]]
         ELSE next_scan(iter, ents, cap, index + 1)
    ELSE [ret |-> FALSE, it |-> [iter EXCEPT !.index = index]]

\* hashtable_next scanning the array that a resize freed under the
\* iterator, had the iterator kept a pointer to the array.
hashtable_next_released(iter, t) ==
    IF released.capacity # 0
    THEN next_scan(iter, released.entries, released.capacity, iter.index)
    ELSE next_scan(iter, t.entries, t.capacity, iter.index)

\* bool hashtable_next(hashtable_iterator *it)
hashtable_next(iter, t) == next_scan(iter, t.entries, t.capacity, iter.index)

RECURSIVE destroy_loop(_, _, _)
\* The for loop of hashtable_destroy from index i on: the addresses it
\* passes to free, in order (free(NULL) does nothing and is left out).
destroy_loop(ents, cap, i) ==
    IF i >= cap THEN <<>>
    ELSE (IF ents[i].addr = NULL_ADDR THEN <<>> ELSE <<ents[i].addr>>)
         \o destroy_loop(ents, cap, i + 1)

\* hashtable_destroy looping over the first INITIAL_CAPACITY slots only.
hashtable_destroy_initial(t) == destroy_loop(t.entries, INITIAL_CAPACITY, 0)

\* void hashtable_destroy(HashTable *table): the key addresses it frees
hashtable_destroy(t) == destroy_loop(t.entries, t.capacity, 0)

\* size_t hashtable_length(HashTable *table)
hashtable_length(t) == t.length

\* The table as a record, as the functions above take it.
Table == [capacity |-> capacity, length |-> length, entries |-> entries]

\* ---------------------------------------------------------------------------
\* The state machine
\* ---------------------------------------------------------------------------

\* No array has been freed since the iterator was created.
NoArray == [capacity |-> 0, entries |-> <<>>]

NoIterator == [active |-> FALSE, index |-> 0, key |-> NULL_KEY,
               value |-> NULL]

\* hashtable_create() having returned a table
Init ==
    /\ capacity = INITIAL_CAPACITY
    /\ length = 0
    /\ entries = calloc(INITIAL_CAPACITY)
    /\ aborted = FALSE
    /\ hung = FALSE
    /\ allocs = {}
    /\ destroyed = FALSE
    /\ freed = <<>>
    /\ it = NoIterator
    /\ last = [op |-> "create", key |-> NULL_KEY, value |-> NULL,
               ret |-> NULL_KEY, ret_addr |-> NULL_ADDR, why |-> "ok"]
    /\ model = [k \in AllKeys |-> NULL]
    /\ yielded = <<>>
    /\ it_sets = 0
    /\ released = NoArray

Running == ~aborted /\ ~hung /\ ~destroyed

\* A call of hashtable_set with a NULL value in a build with asserts on:
\* assert(value != NULL) ends the process.
SetAbort ==
    /\ Running
    /\ aborted' = TRUE
    /\ last' = [op |-> "set", key |-> NULL_KEY, value |-> NULL,
                ret |-> NULL_KEY, ret_addr |-> NULL_ADDR, why |-> "assert"]
    /\ UNCHANGED <<capacity, length, entries, hung, allocs, destroyed,
                   freed, it, model, yielded, it_sets, released>>

\* The address strdup(key) returns when it has memory: one that no earlier
\* copy has.
fresh_addr(key) ==
    <<key, Cardinality({a \in allocs : a[1] = key}) + 1>>

\* A call of hashtable_set that runs past the assert (a non-NULL value, or
\* a build with NDEBUG).
Set(key, value, calloc_ok, strdup_ok) ==
    /\ Running
    /\ length < MaxLength
    /\ it.active => it_sets < MaxStaleSets
    /\ \E r \in {hashtable_set(Table, key, value, calloc_ok,
                               IF strdup_ok THEN fresh_addr(key)
                               ELSE NULL_ADDR)} :
           /\ capacity' = r.capacity
           /\ length' = r.length
           /\ entries' = r.entries
           /\ hung' = r.hung
           /\ allocs' = IF r.dups = 1
                        THEN allocs \cup {fresh_addr(key)}
                        ELSE allocs
           /\ last' = [op |-> "set", key |-> key, value |-> value,
                       ret |-> r.ret, ret_addr |-> r.ret_addr,
                       why |-> r.why]
           /\ model' = IF r.ret # NULL_KEY
                       THEN [model EXCEPT ![key] = value]
                       ELSE model
    /\ it_sets' = IF it.active THEN it_sets + 1 ELSE 0
    /\ released' = IF it.active /\ capacity' # capacity
                    THEN [capacity |-> capacity, entries |-> entries]
                    ELSE released
    /\ UNCHANGED <<aborted, destroyed, freed, it, yielded>>

\* A call of hashtable_get
Get(key) ==
    /\ Running
    /\ \E r \in {hashtable_get(entries, capacity, key)} :
           /\ hung' = r.hung
           /\ last' = [op |-> "get", key |-> key, value |-> r.ret,
                       ret |-> NULL_KEY, ret_addr |-> NULL_ADDR, why |-> "ok"]
    /\ UNCHANGED <<capacity, length, entries, aborted, allocs, destroyed,
                   freed, it, model, yielded, it_sets, released>>

\* A call of hashtable_create_iterator; the caller keeps one iterator and
\* overwrites it.
CreateIterator ==
    /\ Running
    /\ it' = hashtable_create_iterator
    /\ yielded' = <<>>
    /\ it_sets' = 0
    /\ released' = NoArray
    /\ last' = [op |-> "create_iterator", key |-> NULL_KEY, value |-> NULL,
                ret |-> NULL_KEY, ret_addr |-> NULL_ADDR, why |-> "ok"]
    /\ UNCHANGED <<capacity, length, entries, aborted, hung, allocs,
                   destroyed, freed, model>>

\* A call of hashtable_next on the caller's iterator
IterNext ==
    /\ Running
    /\ it.active
    /\ \E r \in {hashtable_next(it, Table)} :
           /\ it' = r.it
           /\ yielded' = IF r.ret
                         THEN Append(yielded, <<r.it.key, r.it.value>>)
                         ELSE yielded
           /\ last' = [op |-> "next", key |-> r.it.key,
                       value |-> r.it.value, ret |-> NULL_KEY,
                       ret_addr |-> NULL_ADDR,
                       why |-> IF r.ret THEN "more" ELSE "end"]
    /\ UNCHANGED <<capacity, length, entries, aborted, hung, allocs,
                   destroyed, freed, model, it_sets, released>>

\* A call of hashtable_destroy; the table is not used afterwards.
Destroy ==
    /\ Running
    /\ destroyed' = TRUE
    /\ freed' = hashtable_destroy(Table)
    /\ last' = [op |-> "destroy", key |-> NULL_KEY, value |-> NULL,
                ret |-> NULL_KEY, ret_addr |-> NULL_ADDR, why |-> "ok"]
    /\ UNCHANGED <<capacity, length, entries, aborted, hung, allocs, it,
                   model, yielded, it_sets, released>>

\* calloc is reached only by a call that grows the table, strdup only by
\* a call with a non-NULL value; elsewhere their outcome is not drawn.
CallocOutcomes(value) ==
    IF value # NULL /\ needs_expand(Table) THEN BOOLEAN ELSE {TRUE}

StrdupOutcomes(value) == IF value # NULL THEN BOOLEAN ELSE {TRUE}

Next ==
    \/ SetAbort
    \/ \E key \in Keys, value \in Values \cup {NULL} :
          \E calloc_ok \in CallocOutcomes(value),
             strdup_ok \in StrdupOutcomes(value) :
            Set(key, value, calloc_ok, strdup_ok)
    \/ \E key \in Keys : Get(key)
    \/ Destroy

Spec == Init /\ [][Next]_vars

\* The table with an iterator: sets that succeed, and the iterator's calls.
NextIter ==
    \/ \E key \in Keys, value \in Values : Set(key, value, TRUE, TRUE)
    \/ CreateIterator
    \/ IterNext

SpecIter == Init /\ [][NextIter]_vars

\* A successful hashtable_set of a key that no earlier set was called with.
SetDistinct(key, value) ==
    /\ model[key] = NULL
    /\ Set(key, value, TRUE, TRUE)

\* The scenario of sets of pairwise distinct keys into a fresh table.
NextNine ==
    \E key \in ScenarioKeys, value \in Values : SetDistinct(key, value)

SpecNine == Init /\ [][NextNine]_vars

\* ---------------------------------------------------------------------------
\* Properties
\* ---------------------------------------------------------------------------

\* What hashtable_get returns for key in the current state.
Lookup(key) == hashtable_get(entries, capacity, key)

\* The keys that some successful hashtable_set was called with.
KeysSet == {k \in AllKeys : model[k] # NULL}

\* The last call was a hashtable_set that returned a key.
SetSucceeded == last.op = "set" /\ last.ret # NULL_KEY

RECURSIVE IsPowerOfTwo(_)
IsPowerOfTwo(n) ==
    IF n = 1 THEN TRUE
    ELSE IF n < 1 \/ n % 2 = 1 THEN FALSE
    ELSE IsPowerOfTwo(n \div 2)

\* C1: right after a hashtable_set(k, v) that returned non-NULL,
\* hashtable_get(k) returns v.
C1_SetThenGet ==
    SetSucceeded => Lookup(last.key) = [ret |-> last.value, hung |-> FALSE]

\* C2: the table is a last-write-wins map: for every key ever successfully
\* set, hashtable_get returns the value of its most recent successful set.
C2_LastWriteWins ==
    \A k \in KeysSet : Lookup(k).ret = model[k]

\* C3: hashtable_length is the number of distinct keys successfully set.
C3_LengthIsDistinctKeys ==
    hashtable_length(Table) = Cardinality(KeysSet)

\* C4: hashtable_get returns NULL for every key that no successful
\* hashtable_set was called with.
C4_NeverSetNotFound ==
    \A k \in Keys \ KeysSet : Lookup(k) = [ret |-> NULL, hung |-> FALSE]

\* C4 witness: a key never set whose candidate slot holds another key.
C4_Witness ==
    \E k \in Keys \ KeysSet :
        entries[slot_index(djb2_hash(k), capacity)].key # NULL_KEY

\* C5: length * 2 <= capacity after hashtable_create and after every
\* hashtable_set.
C5_LoadFactor == length * 2 <= capacity

\* C5 witness: a successful set that found the table half full and grew it.
C5_Witness == SetSucceeded /\ capacity > INITIAL_CAPACITY

\* C6: capacity is 16 at first, always a power of two that is at least 16,
\* and every change of it is a doubling.
C6_CapacityDoubles ==
    /\ capacity = 16
    /\ [](IsPowerOfTwo(capacity) /\ capacity >= 16)
    /\ [][capacity' = capacity \/ capacity' = 2 * capacity]_vars

\* C6 witness: the capacity has changed.
C6_Witness == capacity = 32

\* C7: a hashtable_set with a NULL value fails and leaves capacity, length
\* and every slot as they were.
C7_NullValueRejected ==
    [][(last'.op = "set" /\ last'.value = NULL)
        => (last'.ret = NULL_KEY /\ UNCHANGED table)]_vars

\* C7 witness: a NULL value was turned down by a table that was half full.
C7_Witness ==
    /\ last.op = "set" /\ last.value = NULL /\ last.why = "null_value"
    /\ needs_expand(Table)

\* C8: a hashtable_set whose resize fails returns NULL and leaves capacity,
\* length and every slot as they were.
C8_ExpandFailureUnchanged ==
    [][(last'.op = "set" /\ last'.why = "expand")
        => (last'.ret = NULL_KEY /\ UNCHANGED table)]_vars

\* C8 witness: a set has failed in its resize.
C8_Witness == last.op = "set" /\ last.why = "expand" /\ needs_expand(Table)

\* C9: whenever hashtable_set returns NULL, capacity, length and every slot
\* are what they were before the call.
C9_AllOrNothing ==
    [][(last'.op = "set" /\ last'.ret = NULL_KEY) => UNCHANGED table]_vars

\* The keys of the pairs the iterator has produced, in order.
YieldedKeys == [i \in 1 .. Len(yielded) |-> yielded[i][1]]

\* C10: an iteration run to its end with no hashtable_set in between yields
\* exactly length pairs, no key twice, every key set, each with the value
\* of its last successful set.
C10_IterationComplete ==
    (last.op = "next" /\ last.why = "end" /\ it_sets = 0) =>
        /\ Len(yielded) = hashtable_length(Table)
        /\ \A i, j \in 1 .. Len(yielded) :
              YieldedKeys[i] = YieldedKeys[j] => i = j
        /\ \A k \in KeysSet : \E i \in 1 .. Len(yielded) : YieldedKeys[i] = k
        /\ \A i \in 1 .. Len(yielded) :
              /\ YieldedKeys[i] \in KeysSet
              /\ yielded[i][2] = model[YieldedKeys[i]]

\* C11: of nine successful sets of pairwise distinct keys into a fresh
\* table, the first eight leave capacity at 16 and the ninth makes it 32;
\* then length is 9 and every key is found with its value.
C11_NineDistinctKeys ==
    /\ Cardinality(KeysSet) <= 8 => capacity = 16
    /\ Cardinality(KeysSet) = 9 =>
          /\ capacity = 32
          /\ hashtable_length(Table) = 9
          /\ \A k \in KeysSet : Lookup(k).ret = model[k]

\* C12: a successful hashtable_set(k, v) returns the key stored in the slot
\* that now holds (k, v): the returned string is k and its address is that
\* of a slot with key k and value v.
C12_ReturnsStoredKey ==
    SetSucceeded =>
        /\ last.ret = last.key
        /\ \E i \in DOMAIN entries :
              /\ entries[i].addr = last.ret_addr
              /\ entries[i].key = last.key
              /\ entries[i].value = last.value

\* The slots that hold the address a.
SlotsHolding(a) == {i \in DOMAIN entries : entries[i].addr = a}

\* The number of times hashtable_destroy has freed the address a.
TimesFreed(a) == Cardinality({j \in 1 .. Len(freed) : freed[j] = a})

\* C13: every key copy strdup has made is held by exactly one slot (none is
\* lost by a set or a resize), and hashtable_destroy frees every copy
\* exactly once and nothing else.
C13_KeysFreedOnce ==
    /\ \A a \in allocs : Cardinality(SlotsHolding(a)) = 1
    /\ destroyed =>
          /\ \A a \in allocs : TimesFreed(a) = 1
          /\ \A j \in 1 .. Len(freed) : freed[j] \in allocs

\* C13 witness: a table that has grown and holds copies of two strings was
\* destroyed.
C13_Witness ==
    /\ destroyed
    /\ capacity > INITIAL_CAPACITY
    /\ \E a, b \in allocs : a[1] # b[1]

\* The occupied slots of an array.
Occupied(ents) == {i \in DOMAIN ents : ents[i].key # NULL_KEY}

\* The (key address, key string, value) triples an array holds.
Held(ents) == {ents[i] : i \in Occupied(ents)}

\* C14: a successful resize re-homes every occupied slot: the new array
\* holds exactly the (owned key, value) pairs of the old one, in as many
\* slots, and a resize alone leaves length as it was.
C14_ResizeRehomes ==
    /\ [](needs_expand(Table) =>
            \E e \in {hashtable_expand(Table, TRUE)} :
                /\ e.ok
                /\ Held(e.entries) = Held(entries)
                /\ Cardinality(Occupied(e.entries))
                     = Cardinality(Occupied(entries)))
    /\ [][(capacity' # capacity /\ last'.why = "strdup")
            => (length' = length /\ Held(entries') = Held(entries)
                /\ allocs' = allocs)]_vars

\* C14 witness: a set has resized a table holding different values and
\* then failed, so that the resize is all that happened.
C14_Witness ==
    /\ last.op = "set" /\ last.why = "strdup"
    /\ capacity > INITIAL_CAPACITY
    /\ \E x, y \in Held(entries) : x.value # y.value

\* C15: the length counter is the number of occupied slots of the current
\* array.
C15_LengthIsOccupied ==
    hashtable_length(Table) = Cardinality(Occupied(entries))

\* C15 witness: a set has added an entry to a table that has grown.
C15_Witness ==
    /\ SetSucceeded
    /\ capacity > INITIAL_CAPACITY
    /\ length > INITIAL_CAPACITY \div 2

\* C16: a successful hashtable_set of a key that is already in the table
\* never changes capacity.
C16_UpdateNeverResizes ==
    [][(/\ last'.op = "set"
        /\ last'.ret # NULL_KEY
        /\ \E i \in Occupied(entries) : entries[i].key = last'.key)
        => capacity' = capacity]_vars

\* C16 as amended: a hashtable_set changes capacity exactly when it has a
\* non-NULL value, is entered with length >= capacity / 2 and its resize
\* does not fail, whether or not the key is already in the table.
C16_ResizeWhenHalfFull ==
    [][last'.op = "set" =>
        ((capacity' # capacity)
          <=> (/\ last'.value # NULL
               /\ length >= capacity \div 2
               /\ last'.why # "expand"))]_vars

\* C16 witness: a table that has grown holds one more entry than half the
\* initial capacity and every entry has the key of the last set: that set
\* or one before it resized the table for a key that was already stored.
C16_Witness ==
    /\ SetSucceeded
    /\ capacity > INITIAL_CAPACITY
    /\ length = INITIAL_CAPACITY \div 2 + 1
    /\ \A x \in Held(entries) : x.key = last.key

\* The candidate index of a key in the current array.
Home(key) == slot_index(djb2_hash(key), capacity)

\* C17: every probe ends: the array has an empty slot, and neither a
\* lookup, nor an insertion, nor the migration of a due resize runs through
\* the whole array without stopping, for any key.
C17_ProbesTerminate ==
    /\ ~hung
    /\ \E i \in DOMAIN entries : entries[i].key = NULL_KEY
    /\ \A k \in Keys :
          /\ ~Lookup(k).hung
          /\ set_entry_probe(entries, capacity, k, Home(k), 0).kind # "loop"
    /\ needs_expand(Table) => ~hashtable_expand(Table, TRUE).hung

\* C17 witness: a lookup in a half-full table walked from an occupied
\* candidate slot to an empty slot.
C17_Witness ==
    /\ last.op = "get" /\ last.value = NULL
    /\ length * 2 = capacity
    /\ entries[Home(last.key)].key # NULL_KEY

\* C19: no two occupied slots hold string-equal keys.
C19_KeysUnique ==
    \A i, j \in Occupied(entries) :
        entries[i].key = entries[j].key => i = j

\* C20: every slot on the cyclic path from the candidate index of a stored
\* key to the slot that holds it is occupied.
C20_ProbeChainContiguous ==
    \A i \in Occupied(entries) :
        \A d \in 0 .. ((i + capacity - Home(entries[i].key)) % capacity) :
            entries[(Home(entries[i].key) + d) % capacity].key # NULL_KEY

\* C20 witness: after a resize an entry lies away from its candidate slot.
C20_Witness ==
    /\ capacity > INITIAL_CAPACITY
    /\ \E i \in Occupied(entries) : i # Home(entries[i].key)

\* A resize has freed an array since the caller's iterator was created.
Stale == it.active /\ released.capacity # 0

\* C18: a hashtable_next made after a resize that happened under the
\* iterator scans the old, freed array: it yields what a scan of that array
\* from the iterator's index yields.
C18_NextReadsFreedArray ==
    [][(last'.op = "next" /\ Stale) =>
        \E r \in {next_scan(it, released.entries, released.capacity,
                             it.index)} :
            /\ it' = r.it
            /\ (last'.why = "more") = r.ret]_vars

\* C18 as amended: a hashtable_next made after a resize that happened
\* under the iterator scans the table's current array from the iterator's
\* index: it yields the first occupied slot of the current array at or
\* after that index, and ends only at the current capacity.
C18_NextReadsCurrentArray ==
    [][(last'.op = "next" /\ Stale) =>
        IF last'.why = "more"
        THEN /\ it'.index - 1 \in it.index .. capacity - 1
             /\ entries[it'.index - 1].key # NULL_KEY
             /\ entries[it'.index - 1].key = it'.key
             /\ entries[it'.index - 1].value = it'.value
             /\ \A j \in it.index .. it'.index - 2 :
                   entries[j].key = NULL_KEY
        ELSE /\ it'.index >= capacity
             /\ \A j \in it.index .. capacity - 1 :
                   entries[j].key = NULL_KEY]_vars

\* C18 witness: after a resize under the iterator, hashtable_next has
\* yielded an entry from an index the freed array did not have.
C18_Witness ==
    /\ Stale
    /\ last.op = "next" /\ last.why = "more"
    /\ it.index > released.capacity

====
